---------------------------- MODULE Spec2Model ----------------------------
(***************************************************************************)
(* A model of apps/variable_dependencies.py (calsim_toolkit): the          *)
(* sanitizers, the statement matcher, the line mapper and the three-pass   *)
(* resolver main().                                                        *)
(*                                                                         *)
(* A text is a sequence of lexical units.  A unit is a string that stands  *)
(* for the characters it spells: a one-character unit is that character,   *)
(* and a keyword unit ("define", "goal", "case", "max", "/*", "*/")         *)
(* stands for its letters, which the patterns of the source only ever      *)
(* match as a whole.  Units made of word characters that stand side by     *)
(* side spell one identifier, as their characters do: <<"A", "x">> is the  *)
(* identifier Ax and <<"A", "case">> is Acase.  Offsets and spans are      *)
(* Python's: 0-based, half-open, counted in units.                         *)
(***************************************************************************)
EXTENDS Integers, Sequences, FiniteSets, TLC

\* ------------------------------------------------------------------ text

\* Units made of word characters (\w).
WordUnits ==
    {"define", "DEFINE", "goal", "case", "CASE", "max", "A", "B", "a", "b", "x", "G", "1"}

\* Units matched by \s.
SpaceUnits == {" ", "\n"}

\* Units matched by \d.
DigitUnits == {"1"}

\* str.lower() per unit, which is what re.IGNORECASE compares.
Lower(u) ==
    CASE u = "DEFINE" -> "define"
      [] u = "CASE" -> "case"
      [] u = "A" -> "a"
      [] u = "B" -> "b"
      [] u = "G" -> "g"
      [] OTHER -> u

LowerSeq(s) == [i \in 1..Len(s) |-> Lower(s[i])]

Min(S) == CHOOSE m \in S : \A n \in S : m <= n

Max(S) == CHOOSE m \in S : \A n \in S : m >= n

\* code[i] of Python, "" outside the text (no character there).
At(code, i) == IF i >= 0 /\ i < Len(code) THEN code[i + 1] ELSE ""

\* code[s:e] of Python.
Slice(code, s, e) == SubSeq(code, s + 1, e)

\* ' ' * n
Spaces(n) == [i \in 1..n |-> " "]

\* \b at offset p: exactly one of the characters around p is a word character.
Boundary(code, p) == (At(code, p - 1) \in WordUnits) # (At(code, p) \in WordUnits)

\* str.find(u, from): the first offset >= from holding u, or -1.
Find(code, u, from) ==
    LET S == {k \in from..(Len(code) - 1) : At(code, k) = u}
    IN  IF S = {} THEN 0 - 1 ELSE Min(S)

\* No newline in code[s:e]: what '.' (without DOTALL) can run over.
NoNewline(code, s, e) == \A k \in s..(e - 1) : At(code, k) # "\n"

\* The name, case folded, stands at offset p.
NameAt(code, name, p) ==
    /\ p + Len(name) <= Len(code)
    /\ \A k \in 1..Len(name) : Lower(At(code, p + k - 1)) = Lower(name[k])

\* The default var of find_statement, r'.*?': any text.
AnyVar == <<".*?">>

\* ------------------------------------------------------------ patterns
\* Each pattern is a record; MatchEnd(re, code, i) is the end offset of the
\* match of re that starts at offset i, or -1 when none starts there.

\* '{.*?}' from offset j on (DOTALL): j holds "{", up to the first "}" after.
BraceEnd(code, j) ==
    IF At(code, j) # "{" THEN 0 - 1
    ELSE LET k == Find(code, "}", j + 1) IN IF k < 0 THEN 0 - 1 ELSE k + 1

\* The first offset >= p that holds no \s character.
SkipSpace(code, p) ==
    LET S == {k \in p..Len(code) : At(code, k) \notin SpaceUnits} IN Min(S)

\* statement + r'\s+' + var + '\s*?{.*?}', IGNORECASE | DOTALL.
StatementEnd(re, code, i) ==
    IF Lower(At(code, i)) # re.statement \/ At(code, i + 1) \notin SpaceUnits
    THEN 0 - 1
    ELSE IF re.var = AnyVar
         THEN LET j == Find(code, "{", i + 2)
              IN  IF j < 0 THEN 0 - 1 ELSE BraceEnd(code, j)
         ELSE LET p == SkipSpace(code, i + 1)
              IN  IF NameAt(code, re.var, p)
                  THEN BraceEnd(code, SkipSpace(code, p + Len(re.var)))
                  ELSE 0 - 1

\* r'/\*.*?\*/', DOTALL.
BlockCommentEnd(code, i) ==
    IF At(code, i) # "/*" THEN 0 - 1
    ELSE LET k == Find(code, "*/", i + 1) IN IF k < 0 THEN 0 - 1 ELSE k + 1

\* r'!.*(?=\n)': to the end of the line, which must end in a newline.
LineCommentEnd(code, i) ==
    IF At(code, i) # "!" THEN 0 - 1 ELSE Find(code, "\n", i + 1)

\* r'case.*?{.*?}', DOTALL, case-sensitive, no word boundary.
CaseBlockEnd(code, i) ==
    IF At(code, i) # "case" THEN 0 - 1
    ELSE LET j == Find(code, "{", i + 1)
         IN  IF j < 0 THEN 0 - 1 ELSE BraceEnd(code, j)

\* r'\b\d\.?\d*\b': a digit at a boundary, an optional '.', digits, a boundary;
\* the longest alternative first, as the greedy quantifiers try them.
NumEnd(code, i) ==
    IF ~(At(code, i) \in DigitUnits /\ Boundary(code, i)) THEN 0 - 1
    ELSE LET DigitsFrom(p) ==
                 {e \in p..Len(code) :
                     /\ \A k \in p..(e - 1) : At(code, k) \in DigitUnits
                     /\ Boundary(code, e)}
             dot == IF At(code, i + 1) = "." THEN DigitsFrom(i + 2) ELSE {}
             nodot == DigitsFrom(i + 1)
         IN  IF dot # {} THEN Max(dot)
             ELSE IF nodot # {} THEN Max(nodot)
             ELSE 0 - 1

\* r'\[.+?\]': at least one character, none a newline, up to the first "]".
CycleEnd(code, i) ==
    IF At(code, i) # "[" THEN 0 - 1
    ELSE LET k == Find(code, "]", i + 2)
         IN  IF k < 0 \/ ~NoNewline(code, i + 1, k) THEN 0 - 1 ELSE k + 1

\* r'\b{}\b'.format(key), IGNORECASE: also re_var of main.
WordEnd(re, code, i) ==
    IF /\ Boundary(code, i)
       /\ NameAt(code, re.word, i)
       /\ Boundary(code, i + Len(re.word))
    THEN i + Len(re.word)
    ELSE 0 - 1

\* r'\bcase.*?{', IGNORECASE: the head of a case block, within its line.
CaseHeadEnd(code, i) ==
    IF ~(Lower(At(code, i)) = "case" /\ Boundary(code, i)) THEN 0 - 1
    ELSE LET j == Find(code, "{", i + 1)
         IN  IF j < 0 \/ ~NoNewline(code, i + 1, j) THEN 0 - 1 ELSE j + 1

\* r'\b\w+\b': a whole run of word characters.
WordsEnd(code, i) ==
    IF ~(At(code, i) \in WordUnits /\ Boundary(code, i)) THEN 0 - 1
    ELSE Min({e \in (i + 1)..Len(code) : At(code, e) \notin WordUnits})

\* r".*\n": a line with its newline.
LineEnd(code, i) ==
    LET n == Find(code, "\n", i) IN IF n < 0 THEN 0 - 1 ELSE n + 1

MatchEnd(re, code, i) ==
    CASE re.re = "statement" -> StatementEnd(re, code, i)
      [] re.re = "re_cb" -> BlockCommentEnd(code, i)
      [] re.re = "re_ic" -> LineCommentEnd(code, i)
      [] re.re = "re_case" -> CaseBlockEnd(code, i)
      [] re.re = "re_num" -> NumEnd(code, i)
      [] re.re = "re_cycle" -> CycleEnd(code, i)
      [] re.re = "re_key" -> WordEnd(re, code, i)
      [] re.re = "re_casehead" -> CaseHeadEnd(code, i)
      [] re.re = "re_words" -> WordsEnd(code, i)
      [] re.re = "re_lines" -> LineEnd(code, i)

\* list(re.finditer(re, code)) from offset pos on: the scan tries each offset
\* in turn and goes on from the end of a match.  A match is its span
\* <<start, end>>; no pattern of the source matches the empty text.
RECURSIVE FindIterFrom(_, _, _)
FindIterFrom(re, code, pos) ==
    IF pos >= Len(code) THEN <<>>
    ELSE LET e == MatchEnd(re, code, pos)
         IN  IF e >= 0
             THEN <<(<<pos, e>>)>> \o FindIterFrom(re, code, e)
             ELSE FindIterFrom(re, code, pos + 1)

FindIter(re, code) == FindIterFrom(re, code, 0)

\* ------------------------------------------------------- the functions

\* find_statement(code, statement, var): the spans of the matches.
find_statement(code, statement, var) ==
    FindIter([re |-> "statement", statement |-> statement, var |-> var], code)

\* None of Python, for a line number that was never assigned (lines count from 1).
None == 0

\* The loop of line_numbers over enumerate(lines, 1), from line i on: a line
\* that holds the offset overwrites what an earlier line set.
RECURSIVE LineOf(_, _, _, _)
LineOf(lines, offset, i, found) ==
    IF i > Len(lines) THEN found
    ELSE LineOf(lines, offset, i + 1,
                IF lines[i][1] <= offset /\ offset <= lines[i][2] THEN i ELSE found)

\* line_numbers(match, code) == (start, end)
line_numbers(match, code) ==
    LET lines == FindIter([re |-> "re_lines"], code)
    IN  <<LineOf(lines, match[1], 1, None), LineOf(lines, match[2], 1, None)>>

\* A replacement that puts one space for the whole match: block2 = ' '.
ReplaceBySpace(temp_code, match) ==
    Slice(temp_code, 0, match[1]) \o <<" ">> \o Slice(temp_code, match[2], Len(temp_code))

\* One turn of the replacement loops: block1 + block2 + block3.
Replace(temp_code, match) ==
    Slice(temp_code, 0, match[1])
        \o Spaces(match[2] - match[1])
        \o Slice(temp_code, match[2], Len(temp_code))

\* for match in matches: temp_code = block1 + block2 + block3
RECURSIVE ReplaceAll(_, _)
ReplaceAll(temp_code, matches) ==
    IF matches = <<>> THEN temp_code
    ELSE ReplaceAll(Replace(temp_code, Head(matches)), Tail(matches))

\* The comments remove_comments finds, all in the text it was given.
comments(code) == FindIter([re |-> "re_cb"], code) \o FindIter([re |-> "re_ic"], code)

remove_comments(code) == ReplaceAll(code, comments(code))

\* The case blocks remove_cases finds.
cases(code) == FindIter([re |-> "re_case"], code)

remove_cases(code) == ReplaceAll(code, cases(code))

\* wresl_keys, cut to the keywords that are units of the model, in its order.
wresl_keys == <<"define", "goal", "max", "case">>

\* The matches of the keys from the i-th on.
RECURSIVE KeyMatches(_, _)
KeyMatches(code, i) ==
    IF i > Len(wresl_keys) THEN <<>>
    ELSE (IF wresl_keys[i] = "case"
          THEN FindIter([re |-> "re_casehead"], code)
          ELSE FindIter([re |-> "re_key", word |-> <<wresl_keys[i]>>], code))
         \o KeyMatches(code, i + 1)

\* The matches remove_non_variables blanks: numbers, cycles, keys.
non_variables(code) ==
    FindIter([re |-> "re_num"], code)
        \o FindIter([re |-> "re_cycle"], code)
        \o KeyMatches(code, 1)

remove_non_variables(code) == ReplaceAll(code, non_variables(code))

\* ------------------------------------------------------------ the study
\* A study directory holds *.wresl files; a file is written as a sequence of
\* pieces (statements, comments, blank lines), each a text.

Files == {"a.wresl", "b.wresl"}

\* glob.glob(...): the files in the order the dictionary is filled and read.
wresl_files == <<"a.wresl", "b.wresl">>

Pieces ==
    {"defA", "defA_eof", "defA_ml", "defA_cb", "defA_ch", "defA_case", "defB", "defAx",
     "defAcase", "goalG", "goalG_c", "cmt_blk", "cmt_line", "cmt_eof", "case_def", "nl"}

PieceText(p) ==
    CASE p = "defA" -> <<"define", " ", "A", " ", "{", "B", "[", "1", "]", "}", "\n">>
      [] p = "defA_eof" -> <<"define", " ", "A", "{", "B", "}">>
      [] p = "defA_ml" -> <<"define", " ", "A", "{", "\n", "b", "}", "\n">>
      [] p = "defA_cb" -> <<"define", " ", "A", "{", "/*", "B", "*/", "}", "\n">>
      [] p = "defA_ch" -> <<"define", " ", "A", " ", "/*", "x", "*/", "{", "B", "}", "\n">>
      [] p = "defA_case" ->
            <<"DEFINE", " ", "A", "{", "case", " ", "x", "{", "B", "}", "}", "\n">>
      [] p = "defB" -> <<"define", " ", "B", "{", "max", " ", "1", "}", "\n">>
      [] p = "defAx" -> <<"define", " ", "A", "x", "{", "1", "}", "\n">>
      [] p = "defAcase" ->
            <<"define", " ", "A", "case", "{", "x", "}", "{", "1", "}", "\n">>
      [] p = "goalG" -> <<"goal", " ", "G", "{", "a", ">", "1", ".", "1", "}", "\n">>
      [] p = "goalG_c" -> <<"goal", " ", "G", "{", "x", "/*", "A", "*/", "}", "\n">>
      [] p = "cmt_blk" -> <<"/*", "define", " ", "A", "{", "}", "*/", "\n">>
      [] p = "cmt_line" -> <<"!", "define", " ", "A", "{", "}", "\n">>
      [] p = "cmt_eof" -> <<"!", "define", " ", "A", "{", "}">>
      [] p = "case_def" -> <<"case", " ", "x", "{", "define", " ", "A", "{", "}", "}", "\n">>
      [] p = "nl" -> <<"\n">>

\* The text of a file written as the pieces ps.
RECURSIVE Flatten(_)
Flatten(ps) == IF ps = <<>> THEN <<>> ELSE PieceText(Head(ps)) \o Flatten(Tail(ps))

\* The most pieces a study holds, over all its files.
MaxPieces == 2

SeqsUpTo(S, n) == UNION {[1..k -> S] : k \in 0..n}

\* A line comment that no newline ends runs to the end of its file: it is the
\* file's last piece.
WellFormed(ps) == \A i \in 1..Len(ps) : ps[i] = "cmt_eof" => i = Len(ps)

\* The studies: every sequence of at most MaxPieces pieces, its first k pieces
\* written to a.wresl and the others to b.wresl, and the study that is missing.
Studies ==
    {[exists |-> TRUE,
      files |-> [f \in Files |-> IF f = "a.wresl" THEN SubSeq(c[1], 1, c[2])
                                  ELSE SubSeq(c[1], c[2] + 1, Len(c[1]))]] :
        c \in {d \in SeqsUpTo(Pieces, MaxPieces) \X (0..MaxPieces) :
                 /\ d[2] <= Len(d[1])
                 /\ WellFormed(SubSeq(d[1], 1, d[2]))
                 /\ WellFormed(SubSeq(d[1], d[2] + 1, Len(d[1])))}}
    \cup {[exists |-> FALSE, files |-> [f \in Files |-> <<>>]]}

\* The variables main is asked about.
Vars == {<<"A">>, <<"B">>}

\* ------------------------------------------------------------------ main

\* remove_cases(remove_comments(v)): the text the statements are searched in.
Sanitized(v) == remove_cases(remove_comments(v))

\* The records of the matches of one file: (var, file, lines, span).
FileDefines(name, file, v) ==
    LET matches == find_statement(Sanitized(v), "define", name)
    IN  [i \in 1..Len(matches) |->
            [name |-> name, file |-> file,
             lines |-> line_numbers(matches[i], v), span |-> matches[i]]]

\* The definition search over wresl_code.items(), from the i-th file on.
RECURSIVE DefinesFrom(_, _, _)
DefinesFrom(corpus, name, i) ==
    IF i > Len(wresl_files) THEN <<>>
    ELSE FileDefines(name, wresl_files[i], corpus[wresl_files[i]])
         \o DefinesFrom(corpus, name, i + 1)

\* Pass 1, and the search of one candidate of pass 2.
Defines(corpus, name) == DefinesFrom(corpus, name, 1)

\* v[slice(*span)].split('{', 1): the head and the body of a statement, cut
\* from the text v as read.
SplitHead(v, span) ==
    LET st == Slice(v, span[1], span[2]) IN Slice(st, 0, Find(st, "{", 0))

SplitBody(v, span) ==
    LET st == Slice(v, span[1], span[2]) IN Slice(st, Find(st, "{", 0) + 1, Len(st))

\* The words of the body of one definition: re_words over remove_non_variables.
BodyWords(v, span) ==
    LET temp_code == remove_non_variables(SplitBody(v, span))
        inputs == FindIter([re |-> "re_words"], temp_code)
    IN  {Slice(temp_code, inputs[i][1], inputs[i][2]) : i \in 1..Len(inputs)}

\* set(statement_inputs): the candidate names of all the definitions.
StatementInputs(corpus, defines) ==
    UNION {BodyWords(corpus[defines[i].file], defines[i].span) : i \in 1..Len(defines)}

\* The records of the candidates, looked up in the order given.
RECURSIVE InputsFrom(_, _, _)
InputsFrom(corpus, order, i) ==
    IF i > Len(order) THEN <<>>
    ELSE Defines(corpus, order[i]) \o InputsFrom(corpus, order, i + 1)

\* list(set(...)): the set in one of its orders.
Orders(S) == {o \in [1..Cardinality(S) -> S] : \A x \in S : \E i \in DOMAIN o : o[i] = x}

\* inputs[0].split()[-1]: the last run of characters that are no whitespace.
LastWord(head) ==
    LET e == Max({k \in 1..Len(head) : head[k] \notin SpaceUnits})
        b == Min({k \in 1..e : \A j \in k..e : head[j] \notin SpaceUnits})
    IN  SubSeq(head, b, e)

\* re.finditer(re_var, remove_non_variables(body), re.IGNORECASE): the whole-word
\* places of name in the body of a statement.
FoundIt(name, body) ==
    FindIter([re |-> "re_key", word |-> name], remove_non_variables(body))

\* The statements of one file that hold name in their body.
RECURSIVE DependsOfMatches(_, _, _, _, _)
DependsOfMatches(name, file, v, matches, i) ==
    IF i > Len(matches) THEN <<>>
    ELSE LET found_it == FoundIt(name, SplitBody(v, matches[i]))
         IN  (IF found_it # <<>>
              THEN <<[name |-> LastWord(SplitHead(v, matches[i])), file |-> file,
                      lines |-> line_numbers(matches[i], v), span |-> matches[i]]>>
              ELSE <<>>)
             \o DependsOfMatches(name, file, v, matches, i + 1)

\* All the define statements of a file, then all its goal statements.
Statements(v) ==
    find_statement(Sanitized(v), "define", AnyVar)
        \o find_statement(Sanitized(v), "goal", AnyVar)

RECURSIVE DependsFrom(_, _, _)
DependsFrom(corpus, name, i) ==
    IF i > Len(wresl_files) THEN <<>>
    ELSE LET v == corpus[wresl_files[i]]
         IN  DependsOfMatches(name, wresl_files[i], v, Statements(v), 1)
             \o DependsFrom(corpus, name, i + 1)

\* Pass 3.
Depends(corpus, name) == DependsFrom(corpus, name, 1)

\* One numbered line of the report: 'Line n of file' or 'Lines n - m of file'.
Citation(i, r) ==
    [n |-> i, name |-> r.name,
     msg |-> IF r.lines[1] = r.lines[2] THEN "Line" ELSE "Lines",
     lines |-> r.lines, file |-> r.file]

\* generate_report: the header, then the three sections.
generate_report(name, defines, inputs, depends) ==
    [var |-> name,
     defined |-> [i \in 1..Len(defines) |-> Citation(i, defines[i])],
     inputs |-> IF inputs # <<>>
                THEN [i \in 1..Len(inputs) |-> Citation(i, inputs[i])]
                ELSE <<"There are no variable inputs">>,
     depends |-> IF depends # <<>>
                 THEN [i \in 1..Len(depends) |-> Citation(i, depends[i])]
                 ELSE <<"No variables depend on it">>]

\* ----------------------------------------------------------- the state

VARIABLES
    pc,                \* where the run stands
    study,             \* the study directory: whether it exists, its files as written
    wresl_code,        \* the text of every file, as read
    var,               \* the variable asked about
    var_defines,       \* pass 1: the records of its definitions
    statement_inputs,  \* pass 2: the candidate names, deduplicated
    var_inputs,        \* pass 2: the records of the definitions of its inputs
    var_depends,       \* pass 3: the records of the statements that use it
    ran,               \* the passes started so far
    results,           \* the report: <<>> until generated
    console,           \* what was printed
    outfile,           \* what was written to output_file
    ret,               \* what main returned or raised
    call,              \* a call of one function on its own: the arguments
    value              \* a call of one function on its own: what it returned

vars ==
    <<pc, study, wresl_code, var, var_defines, statement_inputs, var_inputs, var_depends,
      ran, results, console, outfile, ret, call, value>>

NoCall == [fn |-> "main"]

\* The state before main(study, var) runs.
Init ==
    /\ pc = "read"
    /\ study \in Studies
    /\ wresl_code = [f \in Files |-> <<>>]
    /\ var = <<>>
    /\ var_defines = <<>>
    /\ statement_inputs = {}
    /\ var_inputs = <<>>
    /\ var_depends = <<>>
    /\ ran = {}
    /\ results = <<>>
    /\ console = <<>>
    /\ outfile = <<>>
    /\ ret = [kind |-> "running"]
    /\ call = NoCall
    /\ value = <<>>

\* The study directory does not exist: OSError.
RaiseOSError ==
    /\ pc = "read"
    /\ ~study.exists
    /\ pc' = "done"
    /\ ret' = [kind |-> "OSError"]
    /\ UNCHANGED <<study, wresl_code, var, var_defines, statement_inputs, var_inputs,
                   var_depends, ran, results, console, outfile, call, value>>

\* main is called with var = v and reads every file of the study.
ReadStudy(v) ==
    /\ pc = "read"
    /\ study.exists
    /\ var' = v
    /\ wresl_code' = [f \in Files |-> Flatten(study.files[f])]
    /\ pc' = "pass1"
    /\ UNCHANGED <<study, var_defines, statement_inputs, var_inputs, var_depends,
                   ran, results, console, outfile, ret, call, value>>

\* Pass 1: the definitions of var.
FindDefinitions ==
    /\ pc = "pass1"
    /\ var_defines' = Defines(wresl_code, var)
    /\ ran' = ran \cup {"pass1"}
    /\ pc' = "found"
    /\ UNCHANGED <<study, wresl_code, var, statement_inputs, var_inputs, var_depends,
                   results, console, outfile, ret, call, value>>

\* A test that an empty list never passes: if var_defines is None.
NotFoundCondIsNone(defines) == FALSE

\* if not var_defines
NotFoundCond(defines) == defines = <<>>

\* No definition: the message is printed and None returned.
NotFound ==
    /\ pc = "found"
    /\ NotFoundCond(var_defines)
    /\ console' = <<"Variable not found">>
    /\ ret' = [kind |-> "None"]
    /\ pc' = "done"
    /\ UNCHANGED <<study, wresl_code, var, var_defines, statement_inputs, var_inputs,
                   var_depends, ran, results, outfile, call, value>>

\* Pass 2: the candidates of the bodies, then the definitions of each.
FindInputs ==
    /\ pc = "found"
    /\ ~NotFoundCond(var_defines)
    /\ statement_inputs' = StatementInputs(wresl_code, var_defines)
    /\ \E order \in Orders(statement_inputs') :
           var_inputs' = InputsFrom(wresl_code, order, 1)
    /\ ran' = ran \cup {"pass2"}
    /\ pc' = "pass3"
    /\ UNCHANGED <<study, wresl_code, var, var_defines, var_depends, results, console,
                   outfile, ret, call, value>>

\* Pass 3: the statements that use var.
FindDependents ==
    /\ pc = "pass3"
    /\ var_depends' = Depends(wresl_code, var)
    /\ ran' = ran \cup {"pass3"}
    /\ pc' = "report"
    /\ UNCHANGED <<study, wresl_code, var, var_defines, statement_inputs, var_inputs,
                   results, console, outfile, ret, call, value>>

\* The report, to the console and to the file as asked, and the dictionary.
WriteResults(verbose, output_file) ==
    /\ pc = "report"
    /\ results' = IF verbose \/ output_file # ""
                  THEN <<generate_report(var, var_defines, var_inputs, var_depends)>>
                  ELSE results
    /\ console' = IF verbose THEN results' ELSE console
    /\ outfile' = IF output_file # "" THEN results' ELSE outfile
    /\ ret' = [kind |-> "results_dict", defined |-> var_defines, inputs |-> var_inputs,
               dependencies |-> var_depends]
    /\ pc' = "done"
    /\ UNCHANGED <<study, wresl_code, var, var_defines, statement_inputs, var_inputs,
                   var_depends, ran, call, value>>

Next ==
    \/ RaiseOSError
    \/ \E v \in Vars : ReadStudy(v)
    \/ FindDefinitions
    \/ NotFound
    \/ FindInputs
    \/ FindDependents
    \/ \E verbose \in BOOLEAN, output_file \in {"", "report.txt"} :
           WriteResults(verbose, output_file)

Spec == Init /\ [][Next]_vars

\* ------------------------------------------------- the study as written
\* What the pieces of a study say of it, whatever main finds: where its
\* definition blocks are, and which of its texts are comments or case blocks.

\* The variable a piece defines in a block of its own, <<>> when none.
PieceDefines(p) ==
    CASE p \in {"defA", "defA_eof", "defA_ml", "defA_cb", "defA_ch", "defA_case"} -> <<"A">>
      [] p = "defB" -> <<"B">>
      [] p = "defAx" -> <<"A", "x">>
      [] p = "defAcase" -> <<"A", "case">>
      [] OTHER -> <<>>

\* The pieces whose define text is a comment or lies in a case block.
HiddenPieces == {"cmt_blk", "cmt_line", "cmt_eof", "case_def"}

\* The length of the block of a piece: the piece without the newline after it.
BlockLen(p) ==
    LET t == PieceText(p) IN IF t[Len(t)] = "\n" THEN Len(t) - 1 ELSE Len(t)

\* The offset at which the i-th piece of a file starts.
PieceStart(ps, i) == Len(Flatten(SubSeq(ps, 1, i - 1)))

\* The 1-based line of offset o of a text: one more than the newlines before it.
LineAt(v, o) == 1 + Cardinality({k \in 0..(o - 1) : At(v, k) = "\n"})

\* The definition blocks of name in the study: file, span and line range.
TrueDefs(name) ==
    {[file |-> f,
      span |-> <<PieceStart(study.files[f], i),
                 PieceStart(study.files[f], i) + BlockLen(study.files[f][i])>>,
      lines |-> <<LineAt(Flatten(study.files[f]), PieceStart(study.files[f], i)),
                  LineAt(Flatten(study.files[f]),
                         PieceStart(study.files[f], i) + BlockLen(study.files[f][i]) - 1)>>] :
        <<f, i>> \in {<<g, j>> \in Files \X (1..MaxPieces + 1) :
                        /\ j <= Len(study.files[g])
                        /\ LowerSeq(PieceDefines(study.files[g][j])) = LowerSeq(name)}}

\* The piece of file f that holds offset o.
PieceAt(f, o) ==
    LET ps == study.files[f]
        i == Max({j \in 1..Len(ps) : PieceStart(ps, j) <= o})
    IN  ps[i]

\* The records of a list as a set of locations.
Locations(records) ==
    {<<records[i].name, records[i].file, records[i].span>> : i \in 1..Len(records)}

\* ------------------------------------------------------------- claims

\* C1: when the study holds exactly one definition block of the variable asked
\* about, `defined` holds exactly one record, in the file of the block and with
\* the block's 1-based first and last line, wherever the block stands (also on a
\* last line that no newline ends).
C1_SingleDefinitionLocated ==
    ("pass1" \in ran /\ Cardinality(TrueDefs(var)) = 1) =>
        LET d == CHOOSE t \in TrueDefs(var) : TRUE
        IN  /\ Len(var_defines) = 1
            /\ var_defines[1].file = d.file
            /\ var_defines[1].lines = d.lines

\* C2: when the study holds N >= 1 definition blocks of the variable, `defined`
\* holds exactly N records, at pairwise distinct spans (a span being a span of
\* its file's text).
C2_OneRecordPerBlock ==
    ("pass1" \in ran /\ TrueDefs(var) # {}) =>
        /\ Len(var_defines) = Cardinality(TrueDefs(var))
        /\ \A i, j \in 1..Len(var_defines) :
               i # j => <<var_defines[i].file, var_defines[i].span>>
                            # <<var_defines[j].file, var_defines[j].span>>

\* Pass 1 found nothing: no file holds a definition statement of var.
NoDefinition ==
    \A f \in Files : find_statement(Sanitized(wresl_code[f]), "define", var) = <<>>

\* C3: when pass 1 finds no definition, main returns None at once: pass 2 and
\* pass 3 never start, no report is generated or written, and no dictionary is
\* returned; pass 2 and pass 3 run only after pass 1 produced a record.
C3_NotFoundEndsRun ==
    /\ ("pass1" \in ran /\ NoDefinition) =>
           /\ ran = {"pass1"}
           /\ pc \in {"found", "done"}
           /\ results = <<>>
           /\ outfile = <<>>
           /\ pc = "done" => ret.kind = "None"
    /\ (ran \cap {"pass2", "pass3"} # {}) => ("pass1" \in ran /\ var_defines # <<>>)
    /\ ret.kind = "results_dict" => ret.defined # <<>>

\* C3's case: a run over a study that holds text but no definition of the
\* variable has ended with None.
C3_Witness ==
    /\ pc = "done"
    /\ NoDefinition
    /\ ret.kind = "None"
    /\ console = <<"Variable not found">>
    /\ \E f \in Files : wresl_code[f] # <<>>

\* C4: no record of `defined` lies in a text that is a block comment, a line
\* comment or a case block, wherever that text stands in its file.
C4_HiddenTextNotDefined ==
    "pass1" \in ran =>
        \A i \in 1..Len(var_defines) :
            PieceAt(var_defines[i].file, var_defines[i].span[1]) \notin HiddenPieces

\* The name stands at offset p of v as a whole identifier, case folded.
WholeNameAt(v, name, p) ==
    /\ NameAt(v, name, p)
    /\ At(v, p - 1) \notin WordUnits
    /\ At(v, p + Len(name)) \notin WordUnits

\* C5: a literal name is matched whole and case folded in every pass.  Every
\* record of `defined` and of `inputs` stands at a statement that, in its file
\* as written, declares the name of the record and no longer identifier that
\* holds the name; every record of `dependencies` stands at a statement that
\* holds the variable asked about as a whole identifier.
C5_WholeWordInEveryPass ==
    "pass1" \in ran =>
        /\ \A r \in {var_defines[i] : i \in 1..Len(var_defines)}
                     \cup {var_inputs[i] : i \in 1..Len(var_inputs)} :
               WholeNameAt(wresl_code[r.file], r.name,
                           SkipSpace(wresl_code[r.file], r.span[1] + 1))
        /\ \A i \in 1..Len(var_depends) :
               \E k \in var_depends[i].span[1]..(var_depends[i].span[2] - 1) :
                   WholeNameAt(wresl_code[var_depends[i].file], var, k)

\* The body of a statement with the full Sanitizer applied: the comments of the
\* file stripped, then numbers, cycles and keywords; case blocks retained.
SanitizedBody(v, span) == remove_non_variables(SplitBody(remove_comments(v), span))

\* The words that survive the full Sanitizer in the bodies of the definitions.
ExpectedCandidates ==
    UNION {LET t == SanitizedBody(wresl_code[var_defines[i].file], var_defines[i].span)
               w == FindIter([re |-> "re_words"], t)
           IN  {Slice(t, w[k][1], w[k][2]) : k \in 1..Len(w)} :
           i \in 1..Len(var_defines)}

\* C6: `inputs` holds a record named B exactly when B is a word that survives
\* the full Sanitizer in the body of a definition of the variable and B has a
\* definition in the corpus, with one record per definition location of B.
C6_InputsAreDefinedCandidates ==
    "pass2" \in ran =>
        /\ Locations(var_inputs)
               = UNION {Locations(Defines(wresl_code, b)) : b \in ExpectedCandidates}
        /\ Len(var_inputs) = Cardinality(Locations(var_inputs))

\* The statements of the corpus, each with its file.
StatementsIn ==
    UNION {{<<f, Statements(wresl_code[f])[k]>> : k \in 1..Len(Statements(wresl_code[f]))} :
           f \in Files}

\* The statements whose body, its comments stripped, holds var as a whole word:
\* each with its declared variable, its file, its line range and its span.
ExpectedDepends ==
    {<<LastWord(SplitHead(remove_comments(wresl_code[s[1]]), s[2])), s[1],
       <<LineAt(wresl_code[s[1]], s[2][1]), LineAt(wresl_code[s[1]], s[2][2] - 1)>>, s[2]>> :
        s \in {t \in StatementsIn :
                 FoundIt(var, SplitBody(remove_comments(wresl_code[t[1]]), t[2])) # <<>>}}

\* C7: pass 3 records a define or goal statement exactly when its body, with
\* comments, keywords, numbers and cycles stripped, holds the variable as a
\* whole word; the record names the statement's declared variable and gives the
\* statement's file and line range.
C7_DependentsAreUsers ==
    "pass3" \in ran =>
        /\ {<<var_depends[i].name, var_depends[i].file, var_depends[i].lines,
              var_depends[i].span>> : i \in 1..Len(var_depends)} = ExpectedDepends
        /\ Len(var_depends) = Cardinality(ExpectedDepends)

\* C10: when `inputs` of the variable asked about lists a record named B, the
\* dependencies of B list a record that names the variable (case folded) at one
\* of its definition statements.
C10_InputsDualToDependents ==
    "pass2" \in ran =>
        \A i \in 1..Len(var_inputs) :
            LET deps == Depends(wresl_code, var_inputs[i].name)
            IN  \E j \in 1..Len(deps) :
                    /\ LowerSeq(deps[j].name) = LowerSeq(var)
                    /\ \E k \in 1..Len(var_defines) :
                           /\ var_defines[k].file = deps[j].file
                           /\ var_defines[k].span = deps[j].span

\* ------------------------------------------- the functions on their own
\* line_numbers, the sanitizers and the two name searches, each called on
\* texts drawn from a bounded set; main does not run.

MainIdle ==
    /\ study = [exists |-> FALSE, files |-> [f \in Files |-> <<>>]]
    /\ wresl_code = [f \in Files |-> <<>>]
    /\ var = <<>>
    /\ var_defines = <<>>
    /\ statement_inputs = {}
    /\ var_inputs = <<>>
    /\ var_depends = <<>>
    /\ ran = {}
    /\ results = <<>>
    /\ console = <<>>
    /\ outfile = <<>>
    /\ ret = [kind |-> "running"]

mainVars ==
    <<study, wresl_code, var, var_defines, statement_inputs, var_inputs, var_depends,
      ran, results, console, outfile, ret>>

\* The function called returns.
Return(v) ==
    /\ pc = "call"
    /\ value' = v
    /\ pc' = "return"
    /\ UNCHANGED <<call, mainVars>>

\* The longest text line_numbers is called on.
MaxLineLen == 4

LineTexts == SeqsUpTo({"x", "\n"}, MaxLineLen)

InitLines ==
    /\ pc = "call"
    /\ call \in {c \in [fn : {"line_numbers"}, code : LineTexts,
                       match : (0..MaxLineLen) \X (0..MaxLineLen)] :
                   c.match[1] <= c.match[2] /\ c.match[2] <= Len(c.code)}
    /\ value = <<>>
    /\ MainIdle

CallLineNumbers ==
    /\ call.fn = "line_numbers"
    /\ Return(line_numbers(call.match, call.code))

NextLines == CallLineNumbers

SpecLines == InitLines /\ [][NextLines]_vars

\* The longest text a sanitizer is called on.
MaxSanLen == 4

\* The texts: of comment marks, of case blocks, of numbers, cycles and keys.
SanTexts ==
    SeqsUpTo({"/*", "*/", "!", "\n", "x"}, MaxSanLen)
        \cup SeqsUpTo({"case", "CASE", "{", "}", "x", "\n"}, MaxSanLen)
        \cup SeqsUpTo({"1", ".", "[", "]", "max", "x", "\n"}, MaxSanLen)

InitSanitize ==
    /\ pc = "call"
    /\ call \in {[fn |-> f, code |-> c, orig |-> c] :
                   f \in {"remove_comments", "remove_cases", "remove_non_variables"},
                   c \in SanTexts}
    /\ value = <<>>
    /\ MainIdle

CallRemoveComments ==
    /\ call.fn = "remove_comments"
    /\ Return(remove_comments(call.code))

CallRemoveCases ==
    /\ call.fn = "remove_cases"
    /\ Return(remove_cases(call.code))

CallRemoveNonVariables ==
    /\ call.fn = "remove_non_variables"
    /\ Return(remove_non_variables(call.code))

\* remove_cases(remove_comments(v)): the text remove_comments returned is
\* handed to remove_cases.
ThenRemoveCases ==
    /\ pc = "return"
    /\ call.fn = "remove_comments"
    /\ call' = [fn |-> "remove_cases", code |-> value, orig |-> call.orig]
    /\ value' = <<>>
    /\ pc' = "call"
    /\ UNCHANGED mainVars

NextSanitize ==
    \/ CallRemoveComments
    \/ CallRemoveCases
    \/ CallRemoveNonVariables
    \/ ThenRemoveCases

SpecSanitize == InitSanitize /\ [][NextSanitize]_vars

\* The longest text after its first "define" that find_statement is called on,
\* and the longest body searched for a name.
MaxMatchLen == 5

MaxBodyLen == 4

MatchTexts ==
    {<<"define">> \o t : t \in SeqsUpTo({"define", " ", "A", "a", "x", "{", "}"}, MaxMatchLen)}

BodyTexts == SeqsUpTo({"A", "a", "x", "1", "[", "]", "max", " "}, MaxBodyLen)

InitMatch ==
    /\ pc = "call"
    /\ call \in [fn : {"find_statement"}, code : MatchTexts, var : {<<"A">>}]
                    \cup [fn : {"found_it"}, code : BodyTexts, var : {<<"A">>}]
    /\ value = <<>>
    /\ MainIdle

\* The definition search of pass 1 and pass 2, for a literal name.
CallFindStatement ==
    /\ call.fn = "find_statement"
    /\ Return(find_statement(call.code, "define", call.var))

\* The body search of pass 3.
CallFoundIt ==
    /\ call.fn = "found_it"
    /\ Return(FoundIt(call.var, call.code))

NextMatch == CallFindStatement \/ CallFoundIt

SpecMatch == InitMatch /\ [][NextMatch]_vars

\* find_statement and the body search on the text they are handed: every match
\* of the definition search is `define`, whitespace, the name, and the name
\* there is no part of a longer identifier; every place the body search finds
\* holds the name in the body as written, between two characters that are no
\* word characters; and both searches find the same in the text with its case
\* folded.
MatchersWholeWord ==
    pc = "return" =>
        /\ call.fn = "find_statement" =>
               /\ \A i \in 1..Len(value) :
                      WholeNameAt(call.code, call.var, SkipSpace(call.code, value[i][1] + 1))
               /\ value = find_statement(LowerSeq(call.code), "define", LowerSeq(call.var))
        /\ call.fn = "found_it" =>
               /\ \A i \in 1..Len(value) :
                      /\ value[i][2] = value[i][1] + Len(call.var)
                      /\ WholeNameAt(call.code, call.var, value[i][1])
               /\ value = FoundIt(LowerSeq(call.var), LowerSeq(call.code))

\* C8: for a span of a text, line_numbers returns the 1-based line that holds
\* the span's start offset and the 1-based line that holds its end offset,
\* neither of them None, on any line of the text (the spans are those that end
\* in a character of a line, as a match of a statement does).
C8_LinesOfSpan ==
    (/\ pc = "return"
     /\ call.fn = "line_numbers"
     /\ call.match[1] < call.match[2]
     /\ At(call.code, call.match[2] - 1) # "\n") =>
        /\ value = <<LineAt(call.code, call.match[1]), LineAt(call.code, call.match[2])>>
        /\ value[1] # None
        /\ value[2] # None

\* The matches a sanitizer blanks in the text it is given.
Removed(fn, code) ==
    CASE fn = "remove_comments" -> comments(code)
      [] fn = "remove_cases" -> cases(code)
      [] fn = "remove_non_variables" -> non_variables(code)

\* Offset k lies in one of the spans.
InSpans(spans, k) == \E i \in 1..Len(spans) : spans[i][1] <= k /\ k < spans[i][2]

\* C9: a sanitizer returns a text as long as the one it was given, with a space
\* at every offset of a removed span and the character it was given at every
\* other offset; after remove_comments and remove_cases in turn the text is
\* still as long as the original and differs from it only by spaces.
C9_LengthPreserved ==
    pc = "return" /\ call.fn \in {"remove_comments", "remove_cases", "remove_non_variables"} =>
        /\ Len(value) = Len(call.code)
        /\ \A k \in 0..(Len(call.code) - 1) :
               At(value, k) = IF InSpans(Removed(call.fn, call.code), k)
                              THEN " " ELSE At(call.code, k)
        /\ Len(value) = Len(call.orig)
        /\ \A k \in 0..(Len(call.orig) - 1) : At(value, k) \in {At(call.orig, k), " "}

\* C9's case: two removed spans overlap and a character outside them is kept.
C9_Witness ==
    /\ pc = "return"
    /\ call.fn = "remove_comments"
    /\ LET spans == Removed(call.fn, call.code)
       IN  /\ Len(spans) = 2
           /\ spans[1][1] < spans[2][1] /\ spans[2][1] < spans[1][2]
           /\ \E k \in 0..(Len(value) - 1) :
                  /\ ~InSpans(spans, k)
                  /\ At(value, k) # " "
                  /\ At(value, k) = At(call.code, k)

=============================================================================
